---- MODULE Spec2Model ----
(***************************************************************************)
(* Edit-history engine of the OneText editor: the snapshot stack of        *)
(* src/src/editor/history.rs and the TextEditor adapter of                 *)
(* src/src/editor/mod.rs that feeds it from the input buffer.              *)
(*                                                                         *)
(* Indices (current_index, saved_index, cursor offsets) are 0-based as in  *)
(* the Rust source; TLA+ sequences are 1-based, so stack[i] of the source  *)
(* is h.stack[i + 1] here.                                                 *)
(***************************************************************************)
EXTENDS Integers, Sequences, FiniteSets, TLC

\* ------------------------------------------------------------------ bounds
\* deepest history stack the model builds
MaxStack == 3
\* longest sequence T1..Tn of the round-trip script
MaxPushes == 3

\* Texts and cursor offsets handed to History directly.  History only stores,
\* copies and compares them, so three texts and two offsets tell every
\* entry and every cursor field apart.  The same texts are what the user
\* types into the buffer.
Texts == {<<>>, <<"a">>, <<"a", "\n">>}

Offsets == {0, 1}

\* deepest history stack the editor builds from buffer events
MaxEntries == 2
\* most InputEvents emitted and not yet delivered
MaxPending == 2

\* what the user types while the Workspace runs its tasks
WTexts == {<<>>, <<"a">>}

\* normalize_tabs is applied to every content of at most MaxTabLen characters
\* over TabChars
MaxTabLen == 4

TabChars == {"a", " ", "\t"}

TabTexts == UNION {[1..n -> TabChars] : n \in 0..MaxTabLen}

\* offset_to_position is applied to every text of at most MaxPosLen scalars
\* over PosChars ("é" takes two bytes) and to "ab\ncd", at every offset up to
\* one past the longest byte length and at 100
MaxPosLen == 3

PosChars == {"a", "\n", "é"}

PosTexts ==
    UNION {[1..n -> PosChars] : n \in 0..MaxPosLen}
        \cup {<<"a", "b", "\n", "c", "d">>}

PosOffsets == 0..(2 * MaxPosLen + 1) \cup {100}

MaxDetectLen == 4

DetectChars == {"a", "\r", "\n"}

DetectTexts == UNION {[1..n -> DetectChars] : n \in 0..MaxDetectLen}

\* the initial texts TextEditor::new is given (Workspace::new gives the empty one)
InitialTexts == {<<>>, <<"a">>}

\* what files hold and set_text receives, and where files live
FileContents == {<<"\t">>}

Paths == {"f1"}

\* Option<T>: None is the empty sequence, Some(x) the one-element sequence.
None == <<>>

Some(x) == <<x>>

\* ------------------------------------------------------------ History (pure)
Snapshot(text, anchor, head) ==
    [text |-> text, cursor_anchor |-> anchor, cursor_head |-> head]

\* Vec::get / Vec::get_mut with a 0-based index: None when out of range.
Get(stack, i) ==
    IF i >= 0 /\ i < Len(stack) THEN Some(stack[i + 1]) ELSE None

\* new that starts with no snapshot at all
History_new_empty ==
    [stack |-> <<>>, current_index |-> 0, saved_index |-> 0]

History_new ==
    [stack |-> <<Snapshot(<<>>, 0, 0)>>, current_index |-> 0, saved_index |-> 0]

\* clear that carries the caret of the current snapshot over to the new text
History_clear_keeps_cursor(h, text) ==
    [stack |-> <<Snapshot(text, h.stack[h.current_index + 1].cursor_anchor,
                          h.stack[h.current_index + 1].cursor_head)>>,
     current_index |-> 0, saved_index |-> 0]

\* clear that forgets to reset the saved pointer
History_clear_keeps_saved(h, text) ==
    [stack |-> <<Snapshot(text, 0, 0)>>, current_index |-> 0,
     saved_index |-> h.saved_index]

History_clear(h, text) ==
    [stack |-> <<Snapshot(text, 0, 0)>>, current_index |-> 0, saved_index |-> 0]

\* push that truncates the redo branch before it looks for an identical text
History_push_dedup_truncates(h, text, anchor, head) ==
    LET kept == IF h.current_index < Len(h.stack) - 1
                THEN SubSeq(h.stack, 1, h.current_index + 1)
                ELSE h.stack
    IN  IF Get(kept, h.current_index) # None
           /\ kept[h.current_index + 1].text = text
        THEN [h EXCEPT !.stack =
                  [kept EXCEPT ![h.current_index + 1].cursor_anchor = anchor,
                               ![h.current_index + 1].cursor_head = head]]
        ELSE [h EXCEPT !.stack = Append(kept, Snapshot(text, anchor, head)),
                       !.current_index = h.current_index + 1]

\* push whose truncation is off by one: it drops the current snapshot too
History_push_truncates_current(h, text, anchor, head) ==
    IF Get(h.stack, h.current_index) # None
       /\ h.stack[h.current_index + 1].text = text
    THEN [h EXCEPT !.stack[h.current_index + 1].cursor_anchor = anchor,
                   !.stack[h.current_index + 1].cursor_head = head]
    ELSE LET kept == IF h.current_index < Len(h.stack) - 1
                     THEN SubSeq(h.stack, 1, h.current_index)
                     ELSE h.stack
         IN  [h EXCEPT !.stack = Append(kept, Snapshot(text, anchor, head)),
                       !.current_index = h.current_index + 1]

\* push whose debounce compares with the newest snapshot, not the current one
History_push_dedup_top(h, text, anchor, head) ==
    IF h.stack[Len(h.stack)].text = text
    THEN [h EXCEPT !.stack[h.current_index + 1].cursor_anchor = anchor,
                   !.stack[h.current_index + 1].cursor_head = head]
    ELSE LET kept == IF h.current_index < Len(h.stack) - 1
                     THEN SubSeq(h.stack, 1, h.current_index + 1)
                     ELSE h.stack
         IN  [h EXCEPT !.stack = Append(kept, Snapshot(text, anchor, head)),
                       !.current_index = h.current_index + 1]

\* push without the debounce branch: every call appends
History_push_no_dedup(h, text, anchor, head) ==
    LET kept == IF h.current_index < Len(h.stack) - 1
                THEN SubSeq(h.stack, 1, h.current_index + 1)
                ELSE h.stack
    IN  [h EXCEPT !.stack = Append(kept, Snapshot(text, anchor, head)),
                  !.current_index = h.current_index + 1]

\* push that keeps the redo branch: appends at the end and steps to the next index
History_push_no_truncate(h, text, anchor, head) ==
    IF Get(h.stack, h.current_index) # None
       /\ h.stack[h.current_index + 1].text = text
    THEN [h EXCEPT !.stack[h.current_index + 1].cursor_anchor = anchor,
                   !.stack[h.current_index + 1].cursor_head = head]
    ELSE [h EXCEPT !.stack = Append(h.stack, Snapshot(text, anchor, head)),
                   !.current_index = h.current_index + 1]

History_push(h, text, anchor, head) ==
    IF Get(h.stack, h.current_index) # None
       /\ h.stack[h.current_index + 1].text = text
    THEN [h EXCEPT !.stack[h.current_index + 1].cursor_anchor = anchor,
                   !.stack[h.current_index + 1].cursor_head = head]
    ELSE LET kept == IF h.current_index < Len(h.stack) - 1
                     THEN SubSeq(h.stack, 1, h.current_index + 1)
                     ELSE h.stack
         IN  [h EXCEPT !.stack = Append(kept, Snapshot(text, anchor, head)),
                       !.current_index = h.current_index + 1]

\* undo without the current_index > 0 guard
History_undo_unguarded(h) ==
    [h EXCEPT !.current_index = h.current_index - 1]

History_undo(h) ==
    IF h.current_index > 0
    THEN [h EXCEPT !.current_index = h.current_index - 1]
    ELSE h

\* undo that hands back the snapshot it started from
History_undo_ret_stale(h) ==
    IF h.current_index > 0 THEN Get(h.stack, h.current_index) ELSE None

\* undo that reads the stack outside the guard: Some(stack[0]) at index 0
History_undo_ret_unguarded(h) ==
    IF h.current_index > 0
    THEN Get(h.stack, h.current_index - 1)
    ELSE Get(h.stack, h.current_index)

\* the Option<&Snapshot> that undo returns, computed from the state before it
History_undo_ret(h) ==
    IF h.current_index > 0 THEN Get(h.stack, h.current_index - 1) ELSE None

\* redo that jumps to the newest snapshot
History_redo_to_top(h) ==
    IF h.current_index < Len(h.stack) - 1
    THEN [h EXCEPT !.current_index = Len(h.stack) - 1]
    ELSE h

History_redo(h) ==
    IF h.current_index < Len(h.stack) - 1
    THEN [h EXCEPT !.current_index = h.current_index + 1]
    ELSE h

\* redo that hands back the snapshot it started from
History_redo_ret_stale(h) ==
    IF h.current_index < Len(h.stack) - 1
    THEN Get(h.stack, h.current_index)
    ELSE None

History_redo_ret(h) ==
    IF h.current_index < Len(h.stack) - 1
    THEN Get(h.stack, h.current_index + 1)
    ELSE None

\* mark_saved with its assignment reversed
History_mark_saved_reversed(h) ==
    [h EXCEPT !.current_index = h.saved_index]

\* mark_saved that records the top of the stack instead of the current index
History_mark_saved_top(h) ==
    [h EXCEPT !.saved_index = Len(h.stack) - 1]

History_mark_saved(h) ==
    [h EXCEPT !.saved_index = h.current_index]

\* is_dirty that only sees edits made after the saved point
History_is_dirty_above(h) ==
    h.current_index > h.saved_index

History_is_dirty(h) ==
    h.current_index # h.saved_index

\* ------------------------------------------------------ TextEditor (pure)
\* A text is a sequence of Unicode scalar values, each a one-character
\* string; Utf8Len is the number of bytes the scalar takes in a Rust String.
Utf8Len(c) == IF c = "é" THEN 2 ELSE 1

\* normalize_tabs that replaces the first tab only
RECURSIVE normalize_tabs_first(_)
normalize_tabs_first(content) ==
    IF content = <<>> THEN <<>>
    ELSE IF Head(content) = "\t"
         THEN <<" ", " ">> \o Tail(content)
         ELSE <<Head(content)>> \o normalize_tabs_first(Tail(content))

RECURSIVE normalize_tabs(_)
normalize_tabs(content) ==
    IF content = <<>> THEN <<>>
    ELSE IF Head(content) = "\t"
         THEN <<" ", " ">> \o normalize_tabs(Tail(content))
         ELSE <<Head(content)>> \o normalize_tabs(Tail(content))

\* offset_to_position's loop iterating by raw byte: a scalar of two bytes
\* counts as two columns
RECURSIVE offset_to_position_loop_bytes(_, _, _, _, _, _)
offset_to_position_loop_bytes(text, offset, k, i, line, character) ==
    IF k > Len(text) \/ i >= offset
    THEN [line |-> line, character |-> character]
    ELSE IF text[k] = "\n"
         THEN offset_to_position_loop_bytes(text, offset, k + 1,
                                            i + Utf8Len(text[k]), line + 1, 0)
         ELSE offset_to_position_loop_bytes(text, offset, k + 1,
                                            i + Utf8Len(text[k]), line,
                                            character + Utf8Len(text[k]))

\* the loop of offset_to_position: k is the next scalar, i its byte index as
\* char_indices yields it
RECURSIVE offset_to_position_loop(_, _, _, _, _, _)
offset_to_position_loop(text, offset, k, i, line, character) ==
    IF k > Len(text) \/ i >= offset
    THEN [line |-> line, character |-> character]
    ELSE IF text[k] = "\n"
         THEN offset_to_position_loop(text, offset, k + 1, i + Utf8Len(text[k]),
                                      line + 1, 0)
         ELSE offset_to_position_loop(text, offset, k + 1, i + Utf8Len(text[k]),
                                      line, character + 1)

\* offset_to_position giving up on an offset past the scalars' indices
\* instead of running to the end of the text
offset_to_position_unclamped(text, offset) ==
    IF offset > Len(text)
    THEN [line |-> 0, character |-> 0]
    ELSE offset_to_position_loop(text, offset, 1, 0, 0, 0)

offset_to_position(text, offset) ==
    offset_to_position_loop(text, offset, 1, 0, 0, 0)

\* InputState::set_cursor_position: the byte offset of (line, character) in
\* text, the character clamped to the end of its line and the line to the
\* last one.
RECURSIVE set_cursor_position_loop(_, _, _, _, _, _)
set_cursor_position_loop(text, pos, k, i, line, character) ==
    IF k > Len(text) THEN i
    ELSE IF line = pos.line /\ (character = pos.character \/ text[k] = "\n") THEN i
    ELSE IF text[k] = "\n"
         THEN set_cursor_position_loop(text, pos, k + 1, i + Utf8Len(text[k]),
                                       line + 1, 0)
         ELSE set_cursor_position_loop(text, pos, k + 1, i + Utf8Len(text[k]),
                                       line, character + 1)

set_cursor_position(text, pos) ==
    set_cursor_position_loop(text, pos, 1, 0, 0, 0)

\* LineEnding::detect: the counting loop, then the match on (crlf, lf, cr).
\* The bytes of a multi-byte scalar are never b'\r' or b'\n', so the loop
\* steps over scalars.
RECURSIVE detect_loop(_, _, _, _, _)
detect_loop(bytes, i, crlf, lf, cr) ==
    IF i > Len(bytes) THEN <<crlf, lf, cr>>
    ELSE IF bytes[i] = "\r"
         THEN IF i + 1 <= Len(bytes) /\ bytes[i + 1] = "\n"
              THEN detect_loop(bytes, i + 2, crlf + 1, lf, cr)
              ELSE detect_loop(bytes, i + 1, crlf, lf, cr + 1)
         ELSE IF bytes[i] = "\n"
              THEN detect_loop(bytes, i + 1, crlf, lf + 1, cr)
              ELSE detect_loop(bytes, i + 1, crlf, lf, cr)

LineEnding_detect(content) ==
    LET n == detect_loop(content, 1, 0, 0, 0)
    IN  IF n[1] > 0 /\ n[2] = 0 /\ n[3] = 0 THEN "Crlf"
        ELSE IF n[1] = 0 /\ n[2] > 0 /\ n[3] = 0 THEN "Lf"
        ELSE IF n[1] = 0 /\ n[2] = 0 /\ n[3] > 0 THEN "Cr"
        ELSE IF n[1] = 0 /\ n[2] = 0 /\ n[3] = 0 THEN "Lf"
        ELSE "Mixed"

\* update_dirty_state that never stores what it computed
update_dirty_state_stale(dirty_field, h) == dirty_field

\* update_dirty_state: the value is_dirty holds afterwards
update_dirty_state(dirty_field, h) ==
    IF dirty_field # History_is_dirty(h) THEN History_is_dirty(h) ELSE dirty_field

\* ------------------------------------------------------------------- state
VARIABLES
    history,              \* TextEditor.history: [stack, current_index, saved_index]
    input_state,          \* the input buffer: [value, cursor], cursor a text offset
    events,               \* InputEvents emitted by the buffer and not yet delivered
    ignore_input_events,  \* TextEditor.ignore_input_events
    next_frame,           \* an on_next_frame callback is registered
    is_dirty,             \* TextEditor.is_dirty
    current_file,         \* TextEditor.current_file
    line_ending,          \* TextEditor.line_ending
    lastOp,        \* the History call that produced this state: inputs, result,
                   \* and the index and stack length it started from
    mark,          \* since the last mark_saved: the index it saved at, and whether
                   \* only undo/redo calls followed it
    rt,            \* the round-trip script: texts pushed, snapshots returned
    persisted,     \* the text current at the last mark_saved, or given to clear/new
    ws,            \* the Workspace: its current_file, its settings, the file on
                   \* disk, and the save, prompt and open-dialog tasks in flight
    call,          \* one call of a pure function: its inputs and, once made, its result
    restore        \* the last programmatic restore: the stack length and index it
                   \* left, while only event deliveries and frames followed it

editorVars ==
    <<input_state, events, ignore_input_events, next_frame, is_dirty,
      current_file, line_ending>>

vars == <<history, editorVars, lastOp, mark, rt, call, persisted, ws, restore>>

Op(name, text, anchor, head, same, ret, h) ==
    [op |-> name, text |-> text, anchor |-> anchor, head |-> head,
     same |-> same, ret |-> ret,
     pre_index |-> h.current_index, pre_len |-> Len(h.stack)]

NoMark == [at |-> 0, ur |-> FALSE]

NoScript == [pushed |-> <<>>, returned |-> <<>>, undone |-> 0, redone |-> 0]

\* no save task: pc is where the task stands (idle, dialog, read, write,
\* update, done), prompted whether the unsaved-changes prompt awaits it
IdleSave ==
    [pc |-> "idle", path |-> <<>>, contents |-> <<>>, ok |-> FALSE,
     prompted |-> FALSE]

\* no unsaved-changes prompt: pc is idle, shown or saving, cont the guarded
\* continuation (close, open, quit)
IdlePrompt == [pc |-> "idle", cont |-> "none"]

\* Workspace::new: no file, the settings as loaded, nothing written yet
NewWorkspace(protect) ==
    [current_file |-> <<>>, protect |-> protect, written |-> <<>>,
     save |-> IdleSave, prompt |-> IdlePrompt, open |-> FALSE, quit |-> FALSE]

NoCall == [fn |-> "none", text |-> <<>>, offset |-> 0, done |-> FALSE,
           result |-> <<>>, again |-> <<>>]

NoRestore == [active |-> FALSE, len |-> 0, index |-> 0, late |-> FALSE]

\* TextEditor::new as Workspace::new calls it: empty initial text, so the
\* buffer is not written.
EditorInit ==
    /\ input_state = [value |-> <<>>, cursor |-> 0]
    /\ events = <<>>
    /\ ignore_input_events = FALSE
    /\ next_frame = FALSE
    /\ is_dirty = FALSE
    /\ current_file = None
    /\ line_ending = "Lf"

GhostInit ==
    /\ lastOp = Op("new", <<>>, 0, 0, FALSE, None, History_new)
    /\ mark = NoMark
    /\ rt = NoScript
    /\ call = NoCall
    /\ persisted = <<>>
    /\ ws = NewWorkspace(TRUE)
    /\ restore = NoRestore

\* --------------------------------------------- History driven through its API
HInit ==
    /\ history = History_new
    /\ EditorInit
    /\ GhostInit

\* push(text, ..) finds text equal to the current snapshot's text
SameText(h, text) ==
    /\ Get(h.stack, h.current_index) # None
    /\ h.stack[h.current_index + 1].text = text

HPush(text, anchor, head) ==
    /\ ~SameText(history, text) => history.current_index + 2 <= MaxStack
    /\ history' = History_push(history, text, anchor, head)
    /\ lastOp' = Op("push", text, anchor, head, SameText(history, text), None, history)
    /\ mark' = NoMark
    /\ UNCHANGED <<editorVars, rt, restore, call, persisted, ws>>

HUndo ==
    /\ history' = History_undo(history)
    /\ lastOp' = Op("undo", <<>>, 0, 0, FALSE, History_undo_ret(history), history)
    /\ UNCHANGED <<editorVars, mark, rt, restore, call, persisted, ws>>

HRedo ==
    /\ history' = History_redo(history)
    /\ lastOp' = Op("redo", <<>>, 0, 0, FALSE, History_redo_ret(history), history)
    /\ UNCHANGED <<editorVars, mark, rt, restore, call, persisted, ws>>

HClear(text) ==
    /\ history' = History_clear(history, text)
    /\ lastOp' = Op("clear", text, 0, 0, FALSE, None, history)
    /\ mark' = NoMark
    /\ UNCHANGED <<editorVars, rt, restore, call, persisted, ws>>

HMarkSaved ==
    /\ history' = History_mark_saved(history)
    /\ lastOp' = Op("mark_saved", <<>>, 0, 0, FALSE, None, history)
    /\ mark' = [at |-> history.current_index, ur |-> TRUE]
    /\ UNCHANGED <<editorVars, rt, restore, call, persisted, ws>>

HNext ==
    \/ \E text \in Texts, anchor \in Offsets, head \in Offsets :
          HPush(text, anchor, head)
    \/ HUndo
    \/ HRedo
    \/ \E text \in Texts : HClear(text)
    \/ HMarkSaved

SpecHistory == HInit /\ [][HNext]_vars

\* ------------------------------------- the round-trip script: push, undo, redo
\* T1..Tn are pushed on a new History (T1 non-empty, each Ti differs from the
\* one before), then undo() is called n-1 times, then redo() n-1 times.
PushedCount == Len(rt.pushed)

RTPush(text, anchor, head) ==
    /\ rt.undone = 0
    /\ rt.returned = <<>>
    /\ PushedCount < MaxPushes
    /\ text # (IF PushedCount = 0 THEN <<>> ELSE rt.pushed[PushedCount])
    /\ history' = History_push(history, text, anchor, head)
    /\ rt' = [rt EXCEPT !.pushed = Append(rt.pushed, text)]
    /\ UNCHANGED <<editorVars, lastOp, mark, restore, call, persisted, ws>>

RTUndo ==
    /\ PushedCount >= 1
    /\ rt.undone < PushedCount - 1
    /\ history' = History_undo(history)
    /\ rt' = [rt EXCEPT !.returned = Append(rt.returned, History_undo_ret(history)),
                        !.undone = rt.undone + 1]
    /\ UNCHANGED <<editorVars, lastOp, mark, restore, call, persisted, ws>>

RTRedo ==
    /\ PushedCount >= 1
    /\ rt.undone = PushedCount - 1
    /\ rt.redone < PushedCount - 1
    /\ history' = History_redo(history)
    /\ rt' = [rt EXCEPT !.returned = Append(rt.returned, History_redo_ret(history)),
                        !.redone = rt.redone + 1]
    /\ UNCHANGED <<editorVars, lastOp, mark, restore, call, persisted, ws>>

RTNext ==
    \/ \E text \in Texts, anchor \in Offsets, head \in Offsets :
          RTPush(text, anchor, head)
    \/ RTUndo
    \/ RTRedo

SpecRoundTrip == HInit /\ [][RTNext]_vars

\* ------------------------------- History and the content its owner persisted

\* the History calls again, remembering the text that was current when
\* mark_saved was last called, or that clear was last given
SvPush(text, anchor, head) ==
    /\ ~SameText(history, text) => history.current_index + 2 <= MaxStack
    /\ history' = History_push(history, text, anchor, head)
    /\ UNCHANGED <<editorVars, lastOp, mark, rt, call, persisted, restore, ws>>

SvUndo ==
    /\ history' = History_undo(history)
    /\ UNCHANGED <<editorVars, lastOp, mark, rt, call, persisted, restore, ws>>

SvRedo ==
    /\ history' = History_redo(history)
    /\ UNCHANGED <<editorVars, lastOp, mark, rt, call, persisted, restore, ws>>

SvClear(text) ==
    /\ history' = History_clear(history, text)
    /\ persisted' = text
    /\ UNCHANGED <<editorVars, lastOp, mark, rt, call, restore, ws>>

SvMarkSaved ==
    /\ history' = History_mark_saved(history)
    /\ persisted' = history.stack[history.current_index + 1].text
    /\ UNCHANGED <<editorVars, lastOp, mark, rt, call, restore, ws>>

SvNext ==
    \/ \E text \in Texts, anchor \in Offsets, head \in Offsets :
          SvPush(text, anchor, head)
    \/ SvUndo
    \/ SvRedo
    \/ \E text \in Texts : SvClear(text)
    \/ SvMarkSaved

SpecSaved == HInit /\ [][SvNext]_vars

\* ------------------------------------------ LineEnding::detect, called alone

\* a call of LineEnding::detect about to be made on some content
DInit ==
    /\ history = History_new
    /\ EditorInit
    /\ lastOp = Op("new", <<>>, 0, 0, FALSE, None, History_new)
    /\ mark = NoMark
    /\ rt = NoScript
    /\ persisted = <<>>
    /\ ws = NewWorkspace(TRUE)
    /\ restore = NoRestore
    /\ \E content \in DetectTexts :
          call = [fn |-> "detect", text |-> content, offset |-> 0,
                  done |-> FALSE, result |-> <<>>, again |-> <<>>]

Call_LineEnding_detect ==
    /\ call.fn = "detect"
    /\ ~call.done
    /\ call' = [call EXCEPT !.done = TRUE,
                            !.result = LineEnding_detect(call.text)]
    /\ UNCHANGED <<history, editorVars, lastOp, mark, rt, restore, persisted, ws>>

DNext == Call_LineEnding_detect

SpecDetect == DInit /\ [][DNext]_vars

\* ------------------------------------------- offset_to_position, called alone

\* a call of offset_to_position about to be made on some text and offset
PInit ==
    /\ history = History_new
    /\ EditorInit
    /\ lastOp = Op("new", <<>>, 0, 0, FALSE, None, History_new)
    /\ mark = NoMark
    /\ rt = NoScript
    /\ persisted = <<>>
    /\ ws = NewWorkspace(TRUE)
    /\ restore = NoRestore
    /\ \E text \in PosTexts, offset \in PosOffsets :
          call = [fn |-> "offset_to_position", text |-> text, offset |-> offset,
                  done |-> FALSE, result |-> <<>>, again |-> <<>>]

Call_offset_to_position ==
    /\ call.fn = "offset_to_position"
    /\ ~call.done
    /\ call' = [call EXCEPT !.done = TRUE,
                            !.result = offset_to_position(call.text, call.offset)]
    /\ UNCHANGED <<history, editorVars, lastOp, mark, rt, restore, persisted, ws>>

PNext == Call_offset_to_position

SpecPosition == PInit /\ [][PNext]_vars

\* ---------------------------------------------- normalize_tabs, called alone

\* a call of normalize_tabs about to be made on some content
TInit ==
    /\ history = History_new
    /\ EditorInit
    /\ lastOp = Op("new", <<>>, 0, 0, FALSE, None, History_new)
    /\ mark = NoMark
    /\ rt = NoScript
    /\ persisted = <<>>
    /\ ws = NewWorkspace(TRUE)
    /\ restore = NoRestore
    /\ \E content \in TabTexts :
          call = [fn |-> "normalize_tabs", text |-> content, offset |-> 0,
                  done |-> FALSE, result |-> <<>>, again |-> <<>>]

\* normalize_tabs(content), and normalize_tabs of what it returned
Call_normalize_tabs ==
    /\ call.fn = "normalize_tabs"
    /\ ~call.done
    /\ call' = [call EXCEPT !.done = TRUE,
                            !.result = normalize_tabs(call.text),
                            !.again = normalize_tabs(normalize_tabs(call.text))]
    /\ UNCHANGED <<history, editorVars, lastOp, mark, rt, restore, persisted, ws>>

TNext == Call_normalize_tabs

SpecTabs == TInit /\ [][TNext]_vars

\* ------------------------------------------ the editor and its input buffer
\* The buffer (gpui-component's InputState) is outside the repository.  Every
\* write of its content, by the user or by set_value, emits one InputEvent;
\* events are delivered to the editor's subscription in order, at any later
\* time, before or after the next frame.  The tag of an event records what
\* caused it ("user": an edit by the user, "caret": a caret movement, "prog":
\* a set_value by the adapter); the subscription does not see it.  Where
\* set_value leaves the caret is the buffer's choice: any offset of the new
\* content.
\* TextEditor::new(initial_text): a non-empty initial text is written to the
\* buffer before the subscription exists, so its event is never delivered,
\* and the history starts as History::new() whatever the text.
EInit ==
    /\ history = History_new
    /\ \E initial_text \in InitialTexts :
          /\ \E cursor \in 0..Len(initial_text) :
                input_state = [value |-> initial_text, cursor |-> cursor]
          /\ line_ending = "Lf"
    /\ events = <<>>
    /\ ignore_input_events = FALSE
    /\ next_frame = FALSE
    /\ is_dirty = FALSE
    /\ current_file = None
    /\ GhostInit

CanEmit == Len(events) < MaxPending

\* a keystroke, cut or paste: the content changes and the caret lands in it
UserEdit(text, cursor) ==
    /\ CanEmit
    /\ text # input_state.value
    /\ input_state' = [value |-> text, cursor |-> cursor]
    /\ events' = Append(events, "user")
    /\ restore' = NoRestore
    /\ UNCHANGED <<history, ignore_input_events, next_frame, is_dirty,
                   current_file, line_ending, lastOp, mark, rt, call, persisted, ws>>

\* caret movement or focus change reported without a content change
UserSelect(cursor) ==
    /\ CanEmit
    /\ input_state' = [input_state EXCEPT !.cursor = cursor]
    /\ events' = Append(events, "caret")
    /\ restore' = NoRestore
    /\ UNCHANGED <<history, ignore_input_events, next_frame, is_dirty,
                   current_file, line_ending, lastOp, mark, rt, call, persisted, ws>>

\* a subscription that records every event, whatever the flag says
InputEvent_subscription_always_records ==
    /\ events # <<>>
    /\ events' = Tail(events)
    /\ LET text == input_state.value
           cursor == input_state.cursor
       IN  /\ ~SameText(history, text) => history.current_index + 2 <= MaxEntries
           /\ history' = History_push(history, text, cursor, cursor)
           /\ is_dirty' = update_dirty_state(is_dirty, history')
           /\ restore' = IF restore.active /\ Head(events) = "prog"
                         THEN [restore EXCEPT !.late = TRUE]
                         ELSE restore
    /\ UNCHANGED <<input_state, ignore_input_events, next_frame,
                   current_file, line_ending, lastOp, mark, rt, call, persisted, ws>>

\* the subscription of TextEditor::new receives the oldest pending event
InputEvent_subscription ==
    /\ events # <<>>
    /\ events' = Tail(events)
    /\ IF ~ignore_input_events
       THEN LET text == input_state.value
                cursor == input_state.cursor
            IN  /\ ~SameText(history, text) => history.current_index + 2 <= MaxEntries
                /\ history' = History_push(history, text, cursor, cursor)
                /\ is_dirty' = update_dirty_state(is_dirty, history')
                /\ restore' = IF restore.active /\ Head(events) = "prog"
                              THEN [restore EXCEPT !.late = TRUE]
                              ELSE restore
       ELSE UNCHANGED <<history, is_dirty, restore>>
    /\ UNCHANGED <<input_state, ignore_input_events, next_frame,
                   current_file, line_ending, lastOp, mark, rt, call, persisted, ws>>

\* a frame that drops the registered callbacks without running them
NextFrame_drops_callbacks ==
    /\ next_frame
    /\ next_frame' = FALSE
    /\ UNCHANGED <<history, input_state, events, ignore_input_events, is_dirty,
                   current_file, line_ending, lastOp, mark, rt, restore, call,
                   persisted, ws>>

\* the next frame runs every registered on_next_frame callback
NextFrame ==
    /\ next_frame
    /\ ignore_input_events' = FALSE
    /\ next_frame' = FALSE
    /\ UNCHANGED <<history, input_state, events, is_dirty, current_file,
                   line_ending, lastOp, mark, rt, restore, call, persisted, ws>>

Restored(h) ==
    [active |-> TRUE, len |-> Len(h.stack), index |-> h.current_index,
     late |-> FALSE]

\* a restore that clears the flag itself, right after the write
RestoreSnapshot_clears_at_once(snapshot) ==
    LET text == snapshot.text
        pos == offset_to_position(text, snapshot.cursor_head)
    IN  /\ ignore_input_events' = FALSE
        /\ input_state' = [value |-> text,
                           cursor |-> set_cursor_position(text, pos)]
        /\ events' = Append(events, "prog")
        /\ next_frame' = next_frame
        /\ is_dirty' = update_dirty_state(is_dirty, history')
        /\ restore' = Restored(history')

\* the part undo and redo share once History returned Some(snapshot)
RestoreSnapshot(snapshot) ==
    LET text == snapshot.text
        pos == offset_to_position(text, snapshot.cursor_head)
    IN  /\ ignore_input_events' = TRUE
        /\ input_state' = [value |-> text,
                           cursor |-> set_cursor_position(text, pos)]
        /\ events' = Append(events, "prog")
        /\ next_frame' = TRUE
        /\ is_dirty' = update_dirty_state(is_dirty, history')
        /\ restore' = Restored(history')

\* undo that raises the flag and schedules its clear before asking the
\* history
TextEditor_undo_flags_first ==
    LET ret == History_undo_ret(history)
    IN  /\ ret # None => CanEmit
        /\ history' = History_undo(history)
        /\ IF ret # None
           THEN RestoreSnapshot(ret[1])
           ELSE /\ ignore_input_events' = TRUE
                /\ next_frame' = TRUE
                /\ UNCHANGED <<input_state, events, is_dirty, restore>>
        /\ UNCHANGED <<current_file, line_ending, lastOp, mark, rt, call, persisted, ws>>

TextEditor_undo ==
    LET ret == History_undo_ret(history)
    IN  /\ ret # None => CanEmit
        /\ history' = History_undo(history)
        /\ IF ret # None
           THEN RestoreSnapshot(ret[1])
           ELSE UNCHANGED <<input_state, events, ignore_input_events, next_frame,
                            is_dirty, restore>>
        /\ UNCHANGED <<current_file, line_ending, lastOp, mark, rt, call, persisted, ws>>

TextEditor_redo ==
    LET ret == History_redo_ret(history)
    IN  /\ ret # None => CanEmit
        /\ history' = History_redo(history)
        /\ IF ret # None
           THEN RestoreSnapshot(ret[1])
           ELSE UNCHANGED <<input_state, events, ignore_input_events, next_frame,
                            is_dirty, restore>>
        /\ UNCHANGED <<current_file, line_ending, lastOp, mark, rt, call, persisted, ws>>

\* open_file that resets the history with the content as read, before the
\* tabs were normalized
TextEditor_open_file_clears_raw(path, raw) ==
    LET content == normalize_tabs(raw)
    IN  /\ CanEmit
        /\ ignore_input_events' = TRUE
        /\ \E cursor \in 0..Len(content) :
              input_state' = [value |-> content, cursor |-> cursor]
        /\ events' = Append(events, "prog")
        /\ next_frame' = TRUE
        /\ current_file' = Some(path)
        /\ line_ending' = LineEnding_detect(content)
        /\ history' = History_clear(history, raw)
        /\ is_dirty' = update_dirty_state(is_dirty, history')
        /\ restore' = Restored(history')
        /\ UNCHANGED <<lastOp, mark, rt, call, persisted, ws>>

\* open_file with the content the caller passed or read_to_string returned
TextEditor_open_file(path, raw) ==
    LET content == normalize_tabs(raw)
    IN  /\ CanEmit
        /\ ignore_input_events' = TRUE
        /\ \E cursor \in 0..Len(content) :
              input_state' = [value |-> content, cursor |-> cursor]
        /\ events' = Append(events, "prog")
        /\ next_frame' = TRUE
        /\ current_file' = Some(path)
        /\ line_ending' = LineEnding_detect(content)
        /\ history' = History_clear(history, content)
        /\ is_dirty' = update_dirty_state(is_dirty, history')
        /\ restore' = Restored(history')
        /\ UNCHANGED <<lastOp, mark, rt, call, persisted, ws>>

\* open_file(path, .., None) when read_to_string fails: the error is returned
\* before anything is written
TextEditor_open_file_err ==
    UNCHANGED vars

TextEditor_mark_clean ==
    /\ history' = History_mark_saved(history)
    /\ is_dirty' = FALSE
    /\ UNCHANGED <<input_state, events, ignore_input_events, next_frame,
                   current_file, line_ending, lastOp, mark, rt, restore, call, persisted, ws>>

\* close_file that empties the buffer but keeps the history
TextEditor_close_file_keeps_history ==
    /\ CanEmit
    /\ ignore_input_events' = TRUE
    /\ input_state' = [value |-> <<>>, cursor |-> 0]
    /\ events' = Append(events, "prog")
    /\ next_frame' = TRUE
    /\ current_file' = None
    /\ line_ending' = "Lf"
    /\ history' = history
    /\ is_dirty' = update_dirty_state(is_dirty, history')
    /\ restore' = Restored(history')
    /\ UNCHANGED <<lastOp, mark, rt, call, persisted, ws>>

TextEditor_close_file ==
    /\ CanEmit
    /\ ignore_input_events' = TRUE
    /\ input_state' = [value |-> <<>>, cursor |-> 0]
    /\ events' = Append(events, "prog")
    /\ next_frame' = TRUE
    /\ current_file' = None
    /\ line_ending' = "Lf"
    /\ history' = History_clear(history, <<>>)
    /\ is_dirty' = update_dirty_state(is_dirty, history')
    /\ restore' = Restored(history')
    /\ UNCHANGED <<lastOp, mark, rt, call, persisted, ws>>

TextEditor_set_text(content) ==
    /\ CanEmit
    /\ \E cursor \in 0..Len(content) :
          input_state' = [value |-> content, cursor |-> cursor]
    /\ events' = Append(events, "prog")
    /\ line_ending' = LineEnding_detect(content)
    /\ restore' = NoRestore
    /\ UNCHANGED <<history, ignore_input_events, next_frame, is_dirty,
                   current_file, lastOp, mark, rt, call, persisted, ws>>

Next ==
    \/ \E text \in Texts : \E cursor \in 0..Len(text) : UserEdit(text, cursor)
    \/ \E cursor \in 0..Len(input_state.value) : UserSelect(cursor)
    \/ InputEvent_subscription
    \/ NextFrame
    \/ TextEditor_undo
    \/ TextEditor_redo
    \/ \E path \in Paths, raw \in FileContents : TextEditor_open_file(path, raw)
    \/ TextEditor_open_file_err
    \/ TextEditor_mark_clean
    \/ TextEditor_close_file
    \/ \E content \in FileContents : TextEditor_set_text(content)

Spec == EInit /\ [][Next]_vars

\* the window keeps drawing frames: a registered on_next_frame callback is
\* eventually run
SpecFrames == EInit /\ [][Next]_vars /\ WF_vars(NextFrame)

\* ------------------------------------------ the Workspace around the editor
\* Workspace owns the editor and runs the dialogs and the file writes as
\* spawned tasks: between two awaits of a task any other step can run.  At
\* most one save task, one unsaved-changes prompt and one open dialog are in
\* flight.  Nothing runs once the application has quit.

WInit ==
    /\ history = History_new
    /\ EditorInit
    /\ lastOp = Op("new", <<>>, 0, 0, FALSE, None, History_new)
    /\ mark = NoMark
    /\ rt = NoScript
    /\ call = NoCall
    /\ persisted = <<>>
    /\ restore = NoRestore
    /\ \E protect \in BOOLEAN : ws = NewWorkspace(protect)

ghostVars == <<lastOp, mark, rt, call, persisted>>

\* the editor's part of TextEditor::open_file(path, .., Some(raw))
EditorOpens(path, raw) ==
    LET content == normalize_tabs(raw)
    IN  /\ CanEmit
        /\ ignore_input_events' = TRUE
        /\ \E cursor \in 0..Len(content) :
              input_state' = [value |-> content, cursor |-> cursor]
        /\ events' = Append(events, "prog")
        /\ next_frame' = TRUE
        /\ current_file' = Some(path)
        /\ line_ending' = LineEnding_detect(content)
        /\ history' = History_clear(history, content)
        /\ is_dirty' = update_dirty_state(is_dirty, history')
        /\ restore' = Restored(history')

\* the editor's part of TextEditor::close_file
EditorCloses ==
    /\ CanEmit
    /\ ignore_input_events' = TRUE
    /\ input_state' = [value |-> <<>>, cursor |-> 0]
    /\ events' = Append(events, "prog")
    /\ next_frame' = TRUE
    /\ current_file' = None
    /\ line_ending' = "Lf"
    /\ history' = History_clear(history, <<>>)
    /\ is_dirty' = update_dirty_state(is_dirty, history')
    /\ restore' = Restored(history')

EditorUntouched == UNCHANGED <<history, editorVars, restore>>

\* Workspace::open_file(path): the editor reads the file itself; its error
\* is dropped and current_file is set either way
Workspace_open_file(path, read) ==
    /\ ~ws.quit
    /\ IF read = None THEN EditorUntouched ELSE EditorOpens(path, read[1])
    /\ ws' = [ws EXCEPT !.current_file = Some(path)]
    /\ UNCHANGED ghostVars

\* the continuation handed to handle_unsaved_changes, run on the workspace w:
\* close_file (new_file), open_dialog_internal (open_dialog), quit (exit_app)
Continuation(cont, w) ==
    CASE cont = "close" ->
            /\ EditorCloses
            /\ ws' = [w EXCEPT !.current_file = None]
      [] cont = "open" ->
            /\ EditorUntouched
            /\ ws' = [w EXCEPT !.open = TRUE]
      [] cont = "quit" ->
            /\ EditorUntouched
            /\ ws' = [w EXCEPT !.quit = TRUE]

\* new_file, open_dialog, exit_app: handle_unsaved_changes up to its spawn
Workspace_guarded(cont) ==
    /\ ~ws.quit
    /\ ws.prompt.pc = "idle"
    /\ cont = "open" => ~ws.open
    /\ IF ~ws.protect \/ ~is_dirty
       THEN Continuation(cont, ws)
       ELSE /\ EditorUntouched
            /\ ws' = [ws EXCEPT
                          !.prompt = [pc |-> "shown", cont |-> cont]]
    /\ UNCHANGED ghostVars

\* save_file_task: Save As when the workspace has no current file
SaveTask(prompted) ==
    IF ws.current_file = None
    THEN [IdleSave EXCEPT !.pc = "dialog", !.prompted = prompted]
    ELSE [IdleSave EXCEPT !.pc = "read", !.path = ws.current_file,
                          !.prompted = prompted]

\* the unsaved-changes dialog is answered
Prompt_answer(answer) ==
    /\ ~ws.quit
    /\ ws.prompt.pc = "shown"
    /\ CASE answer = "yes" ->
              /\ ws.save.pc = "idle"
              /\ EditorUntouched
              /\ ws' = [ws EXCEPT
                            !.prompt.pc = "saving", !.save = SaveTask(TRUE)]
         [] answer = "no" ->
              Continuation(ws.prompt.cont,
                           [ws EXCEPT !.prompt = IdlePrompt])
         [] answer = "cancel" ->
              /\ EditorUntouched
              /\ ws' = [ws EXCEPT !.prompt = IdlePrompt]
    /\ UNCHANGED ghostVars

\* a prompt task that goes on after the save whatever its result
Prompt_after_save_ignores_result ==
    /\ ~ws.quit
    /\ ws.prompt.pc = "saving"
    /\ ws.save.pc = "done"
    /\ Continuation(ws.prompt.cont,
                    [ws EXCEPT !.prompt = IdlePrompt, !.save = IdleSave])
    /\ UNCHANGED ghostVars

\* the prompt's task resumes after the save task it awaited
Prompt_after_save ==
    /\ ~ws.quit
    /\ ws.prompt.pc = "saving"
    /\ ws.save.pc = "done"
    /\ IF ws.save.ok
       THEN Continuation(ws.prompt.cont,
                         [ws EXCEPT
                             !.prompt = IdlePrompt, !.save = IdleSave])
       ELSE /\ EditorUntouched
            /\ ws' = [ws EXCEPT
                          !.prompt = IdlePrompt, !.save = IdleSave]
    /\ UNCHANGED ghostVars

\* save_file / save_as_dialog from the menu or a key binding
Workspace_save_file ==
    /\ ~ws.quit
    /\ ws.save.pc = "idle"
    /\ EditorUntouched
    /\ ws' = [ws EXCEPT !.save = SaveTask(FALSE)]
    /\ UNCHANGED ghostVars

Workspace_save_as_dialog ==
    /\ ~ws.quit
    /\ ws.save.pc = "idle"
    /\ EditorUntouched
    /\ ws' = [ws EXCEPT !.save.pc = "dialog"]
    /\ UNCHANGED ghostVars

\* the save task ends with the given result: its awaiter, if any, sees it
Finished(ok) ==
    IF ws.save.prompted
    THEN [ws.save EXCEPT !.pc = "done", !.ok = ok]
    ELSE IdleSave

\* save_as_dialog_task after the dialog: a cancelled dialog ends the task;
\* a picked path goes to the editor first, then the text is read
Save_dialog_answer(picked) ==
    /\ ~ws.quit
    /\ ws.save.pc = "dialog"
    /\ IF picked = None
       THEN /\ EditorUntouched
            /\ ws' = [ws EXCEPT !.save = Finished(FALSE)]
       ELSE /\ current_file' = picked
            /\ ws' = [ws EXCEPT
                          !.save.pc = "write", !.save.path = picked,
                          !.save.contents = input_state.value]
            /\ UNCHANGED <<history, input_state, events, ignore_input_events,
                           next_frame, is_dirty, line_ending, restore>>
    /\ UNCHANGED ghostVars

\* save_file_task's first poll: get_editor_text_async
Save_read ==
    /\ ~ws.quit
    /\ ws.save.pc = "read"
    /\ EditorUntouched
    /\ ws' = [ws EXCEPT
                  !.save.pc = "write", !.save.contents = input_state.value]
    /\ UNCHANGED ghostVars

\* write_file_and_update: fs::write on the background executor
Save_write(ok) ==
    /\ ~ws.quit
    /\ ws.save.pc = "write"
    /\ EditorUntouched
    /\ ws' = IF ok
             THEN [ws EXCEPT
                      !.save.pc = "update", !.written = Some(ws.save.contents)]
             ELSE [ws EXCEPT !.save = Finished(FALSE)]
    /\ UNCHANGED ghostVars

\* write_file_and_update after a successful write: current_file, mark_clean
Save_update ==
    /\ ~ws.quit
    /\ ws.save.pc = "update"
    /\ history' = History_mark_saved(history)
    /\ is_dirty' = FALSE
    /\ ws' = [ws EXCEPT
                  !.current_file = ws.save.path, !.save = Finished(TRUE)]
    /\ UNCHANGED <<input_state, events, ignore_input_events, next_frame,
                   current_file, line_ending, restore>>
    /\ UNCHANGED ghostVars

\* open_dialog_internal after the dialog: nothing on cancel or a failed
\* read, else the file goes to the workspace and to the editor
Open_dialog_answer(picked) ==
    /\ ~ws.quit
    /\ ws.open
    /\ IF picked = None
       THEN /\ EditorUntouched
            /\ ws' = [ws EXCEPT !.open = FALSE]
       ELSE /\ EditorOpens(picked[1][1], picked[1][2])
            /\ ws' = [ws EXCEPT
                          !.open = FALSE, !.current_file = Some(picked[1][1])]
    /\ UNCHANGED ghostVars

\* the user and the window go on while tasks are in flight
Workspace_user_edit(text) == ~ws.quit /\ UserEdit(text, Len(text))

Workspace_input_event == ~ws.quit /\ InputEvent_subscription

Workspace_next_frame == ~ws.quit /\ NextFrame

WNext ==
    \/ \E path \in Paths, read \in {None} \cup {Some(raw) : raw \in FileContents} :
          Workspace_open_file(path, read)
    \/ \E cont \in {"close", "open", "quit"} : Workspace_guarded(cont)
    \/ \E answer \in {"yes", "no", "cancel"} : Prompt_answer(answer)
    \/ Prompt_after_save
    \/ Workspace_save_file
    \/ Workspace_save_as_dialog
    \/ \E picked \in {None} \cup {Some(path) : path \in Paths} :
          Save_dialog_answer(picked)
    \/ Save_read
    \/ \E ok \in BOOLEAN : Save_write(ok)
    \/ Save_update
    \/ \E picked \in {None} \cup
                      {Some(<<path, raw>>) : path \in Paths, raw \in FileContents} :
          Open_dialog_answer(picked)
    \/ \E text \in WTexts : Workspace_user_edit(text)
    \/ Workspace_input_event
    \/ Workspace_next_frame

SpecWorkspace == WInit /\ [][WNext]_vars

\* --------------------------------------------------- claims about the editor
\* C2: after undo, redo, open_file or close_file has completed, and while only
\* deliveries of pending change notifications and frames follow it (the
\* notification of its own buffer write being delivered before or after the
\* deferred clear of the flag), the stack length and current_index stay
\* exactly what the restore set.
C2_SuppressionCorrect ==
    restore.active =>
        /\ Len(history.stack) = restore.len
        /\ history.current_index = restore.index

\* an undo whose own notification was delivered after the flag was cleared,
\* with nothing left pending
C2_Witness ==
    /\ restore.active
    /\ restore.late
    /\ restore.index < restore.len - 1
    /\ events = <<>>
    /\ ~ignore_input_events

\* the adapter is quiescent: no change notification pending, flag clear
Quiescent == events = <<>> /\ ~ignore_input_events

\* C11: in every quiescent state the text held by the buffer equals
\* stack[current_index].text, after any sequence of user edits, undo, redo,
\* open_file, close_file, set_text and construction with initial text.
C11_DisplayedIsCurrent ==
    Quiescent =>
        /\ Get(history.stack, history.current_index) # None
        /\ history.stack[history.current_index + 1].text = input_state.value

\* C20: every program-driven write of the buffer content by the adapter
\* (undo, redo, open_file, close_file, set_text) is made with the suppression
\* flag set: no step that writes the buffer programmatically, while the
\* notification handler is subscribed, ends with the flag clear.
C20_WritesUnderSuppression ==
    [][(Len(events') > Len(events) /\ events'[Len(events')] = "prog") =>
          ignore_input_events'
    ]_vars

\* the subscription handles a notification that a write of the given kind
\* caused
Handles(kind) == Len(events') < Len(events) /\ Head(events) = kind

\* C24: the suppressed path of the notification handler is taken only for
\* notifications caused by a programmatic write: no change notification
\* caused by a user-driven edit (keystroke, paste) is ever handled while the
\* suppression flag is set, so no user edit arriving between a restore and
\* the next frame tick is dropped from history or from the dirty computation.
C24_UserEditsNeverSuppressed ==
    [][Handles("user") => ~ignore_input_events]_vars

\* C25: every change notification triggered by a programmatic buffer write is
\* handled while the suppression flag is still set, also when the buffer
\* delivers that notification asynchronously relative to the write: the
\* deferred clear never runs before the write's own notification has been
\* swallowed.
C25_ProgrammaticAlwaysSuppressed ==
    [][Handles("prog") => ignore_input_events]_vars

\* a step in which undo, redo, open_file or close_file wrote the buffer
Restores == Len(events') > Len(events) /\ restore'.active

\* C26: in a programmatic restore (undo, redo, open_file, close_file) the
\* suppression flag is set before the buffer write and is not cleared
\* synchronously: it stays set in every state from the write until the next
\* frame tick, even when several restores happen within the same frame.  A
\* restore ends with the flag set and the clear scheduled; the flag is set
\* whenever a clear is scheduled; only the frame tick clears it.
C26_FlagHeldUntilNextFrame ==
    [][/\ Restores => (ignore_input_events' /\ next_frame')
       /\ next_frame' => ignore_input_events'
       /\ (ignore_input_events /\ ~ignore_input_events') =>
             (next_frame /\ ~next_frame')
    ]_vars

\* two restores made within one frame, both notifications still pending
C26_Witness ==
    /\ events = <<"prog", "prog">>
    /\ restore.active
    /\ ignore_input_events
    /\ next_frame

\* C27: the suppression flag is initially false and never stays set forever:
\* after any programmatic restore, provided frame ticks keep occurring, the
\* flag eventually becomes false again and subsequent user edits are
\* recorded in history (their notification, handled with the flag clear,
\* pushes the buffer's content).
C27_FlagEventuallyClears ==
    /\ ~ignore_input_events
    /\ ignore_input_events ~> ~ignore_input_events
    /\ [][(Handles("user") /\ ~ignore_input_events) =>
             /\ history' = History_push(history, input_state.value,
                                        input_state.cursor, input_state.cursor)
             /\ history'.stack[history'.current_index + 1].text = input_state.value
       ]_vars

\* a file was opened, the frame cleared the flag, and an edit made since is
\* in the history
C27_Witness ==
    /\ current_file # None
    /\ ~ignore_input_events
    /\ ~next_frame
    /\ events = <<>>
    /\ history.current_index > 0
    /\ history.stack[history.current_index + 1].text = input_state.value

\* a step of the notification handler
Handled == Len(events') < Len(events)

\* C28: when the notification handler runs with the suppression flag set it
\* leaves the history (stack, current_index, saved_index) and the editor's
\* is_dirty field unchanged; when it runs with the flag clear it calls
\* push(content, caret, caret) with the buffer's current content and caret,
\* both cursor fields receiving the same caret offset.
C28_HandlerObeysFlag ==
    [][Handled =>
        IF ignore_input_events
        THEN history' = history /\ is_dirty' = is_dirty
        ELSE /\ history' = History_push(history, input_state.value,
                                        input_state.cursor, input_state.cursor)
             /\ LET top == history'.stack[history'.current_index + 1]
                IN  /\ top.text = input_state.value
                    /\ top.cursor_anchor = input_state.cursor
                    /\ top.cursor_head = input_state.cursor
    ]_vars

\* the notification of a restore has been swallowed: the flag has been set
\* since that restore, nothing is pending, and the buffer's caret is not the
\* one in the current snapshot
C28_Witness ==
    /\ restore.active
    /\ ignore_input_events
    /\ events = <<>>
    /\ history.stack[history.current_index + 1].cursor_head # input_state.cursor

\* C29: the editor's exposed is_dirty field equals history.is_dirty() after
\* every adapter operation completes (unsuppressed notification handler,
\* undo, redo, open_file, close_file, mark_clean), for any sequence of these
\* operations.
C29_DirtyFieldMirrorsHistory ==
    is_dirty = History_is_dirty(history)

\* the field is set after a mark_clean followed by an undo below the saved
\* point
C29_Witness ==
    /\ is_dirty
    /\ history.current_index < history.saved_index
    /\ history.saved_index < Len(history.stack)

\* what the adapter shows after restoring a snapshot: its text, the caret at
\* offset_to_position(text, cursor_head)
Shown(snapshot) ==
    [value |-> snapshot.text,
     cursor |-> set_cursor_position(
                    snapshot.text,
                    offset_to_position(snapshot.text, snapshot.cursor_head))]

\* C30: when the adapter's undo or redo finds nothing to do (history returns
\* None), it is a complete no-op: the buffer is not written, the caret is
\* not moved, the suppression flag is not set, no deferred clear is scheduled
\* and is_dirty is unchanged; when a snapshot is returned, the buffer text is
\* replaced by the snapshot's text and the caret is set to
\* offset_to_position(text, cursor_head).
C30_UndoRedoNoOpOrRestore ==
    [][/\ ((TextEditor_undo /\ History_undo_ret(history) = None)
            \/ (TextEditor_redo /\ History_redo_ret(history) = None)) =>
              UNCHANGED <<history, input_state, events, ignore_input_events,
                          next_frame, is_dirty>>
       /\ (TextEditor_undo /\ History_undo_ret(history) # None) =>
              input_state' = Shown(History_undo_ret(history)[1])
       /\ (TextEditor_redo /\ History_redo_ret(history) # None) =>
              input_state' = Shown(History_redo_ret(history)[1])
    ]_vars

\* an undo has put back the content of an opened file, its notification
\* still pending
C30_Witness ==
    /\ restore.active
    /\ ~restore.late
    /\ events = <<"prog">>
    /\ history.current_index < Len(history.stack) - 1
    /\ input_state.value # <<>>
    /\ input_state.value = history.stack[history.current_index + 1].text

\* the history of a document just loaded with the given text
Fresh(text) ==
    [stack |-> <<Snapshot(text, 0, 0)>>, current_index |-> 0, saved_index |-> 0]

\* C31: loading or closing a document destroys undo history: immediately
\* after a successful open_file(path, content) the history is a single
\* snapshot whose text is the tab-normalized content written to the buffer,
\* and after close_file it is a single empty snapshot; in both cases is_dirty
\* is false and undo and redo are no-ops until the next recorded user edit
\* (while the history is that single snapshot, the adapter's undo and redo
\* change nothing).
C31_LoadAndCloseResetHistory ==
    [][/\ \A path \in Paths, raw \in FileContents :
             TextEditor_open_file(path, raw) =>
                 /\ input_state'.value = normalize_tabs(raw)
                 /\ history' = Fresh(input_state'.value)
                 /\ ~is_dirty'
                 /\ History_undo_ret(history') = None
                 /\ History_redo_ret(history') = None
       /\ TextEditor_close_file =>
             /\ input_state'.value = <<>>
             /\ history' = Fresh(<<>>)
             /\ ~is_dirty'
             /\ History_undo_ret(history') = None
             /\ History_redo_ret(history') = None
       /\ (Len(history.stack) = 1 /\ (TextEditor_undo \/ TextEditor_redo)) =>
             UNCHANGED <<history, input_state, events, ignore_input_events,
                         next_frame, is_dirty>>
    ]_vars

\* a file with a tab has just been opened: one snapshot, holding the two
\* spaces the buffer shows
C31_Witness ==
    /\ restore.active
    /\ current_file # None
    /\ events = <<"prog">>
    /\ input_state.value = <<" ", " ">>
    /\ history = Fresh(<<" ", " ">>)
    /\ ~is_dirty

\* ------------------------------------------- claims about offset_to_position

\* the length of text in UTF-8 bytes
RECURSIVE ByteLen(_)
ByteLen(text) ==
    IF text = <<>> THEN 0 ELSE Utf8Len(Head(text)) + ByteLen(Tail(text))

\* the position after the first k scalars of text: the line is the number of
\* "\n" among them, the column the number of scalars after the last of these
NewlinesIn(text, k) == {j \in 1..k : text[j] = "\n"}

ScalarPosition(text, k) ==
    [line |-> Cardinality(NewlinesIn(text, k)),
     character |-> k - (CHOOSE m \in NewlinesIn(text, k) \cup {0} :
                           \A j \in NewlinesIn(text, k) : j <= m)]

\* the call of offset_to_position has been made
Called == call.fn = "offset_to_position" /\ call.done

\* C12 as stated: for an offset counted in Unicode scalar values,
\* 0 <= offset <= length, offset_to_position returns the line and column of
\* the position after the first offset scalars, a multi-byte character
\* counting as one offset unit and one column unit.
C12_ScalarOffsetPosition ==
    (Called /\ call.offset <= Len(call.text)) =>
        call.result = ScalarPosition(call.text, call.offset)

\* C12 amended: for an offset counted in UTF-8 bytes that falls on a scalar
\* boundary of the text, offset_to_position returns the line and column of
\* the position after the scalars that end at the offset: line = number of
\* "\n" among them, column = number of scalars after the last "\n"; a
\* multi-byte character counts as one column unit.
C12_ByteOffsetPosition ==
    Called =>
        \A k \in 0..Len(call.text) :
            call.offset = ByteLen(SubSeq(call.text, 1, k)) =>
                call.result = ScalarPosition(call.text, k)

\* a call at a boundary behind a two-byte scalar and a line break, where the
\* byte offset and the scalar count differ
C12_Witness ==
    /\ Called
    /\ \E k \in 1..Len(call.text) :
          /\ call.offset = ByteLen(SubSeq(call.text, 1, k))
          /\ call.offset > k
          /\ call.result.line > 0
          /\ call.result.character > 0

\* C13 as stated: offset_to_position is total and clamps, the length counted
\* in scalars as the offsets of the specification are: an offset greater
\* than the text length gives the result for the end of the text, and
\* ("",0)->(0,0), ("ab\ncd",4)->(1,1), ("ab\ncd",2)->(0,2),
\* ("ab\ncd",100)->(1,2).
AbCd == <<"a", "b", "\n", "c", "d">>

SingleByteCases ==
    /\ (call.text = <<>> /\ call.offset = 0) =>
           call.result = [line |-> 0, character |-> 0]
    /\ (call.text = AbCd /\ call.offset = 4) =>
           call.result = [line |-> 1, character |-> 1]
    /\ (call.text = AbCd /\ call.offset = 2) =>
           call.result = [line |-> 0, character |-> 2]
    /\ (call.text = AbCd /\ call.offset = 100) =>
           call.result = [line |-> 1, character |-> 2]

C13_ClampsPastScalarLength ==
    Called =>
        /\ call.offset > Len(call.text) =>
               call.result = ScalarPosition(call.text, Len(call.text))
        /\ SingleByteCases

\* C13 amended: offset_to_position is total and clamps at the length in
\* UTF-8 bytes: an offset greater than the byte length of the text gives
\* the result for the end of the text, and on single-byte text the four
\* cases above hold.
C13_ClampsPastByteLength ==
    Called =>
        /\ call.offset > ByteLen(call.text) =>
               call.result = ScalarPosition(call.text, Len(call.text))
        /\ SingleByteCases

\* the call ("ab\ncd", 100) has been made and gave the end of the text
C13_Witness ==
    /\ Called
    /\ call.text = AbCd
    /\ call.offset = 100
    /\ call.result = [line |-> 1, character |-> 2]

\* ----------------------------------------------- claims about normalize_tabs

\* the number of tabs among the first k characters of content
TabsIn(content, k) == Cardinality({j \in 1..k : content[j] = "\t"})

\* C21: normalize_tabs replaces every tab character by exactly two spaces and
\* leaves every other character unchanged and in order; its output contains
\* no tab, and applying it twice gives the same result as applying it once.
C21_TabsBecomeTwoSpaces ==
    (call.fn = "normalize_tabs" /\ call.done) =>
        /\ Len(call.result) = Len(call.text) + TabsIn(call.text, Len(call.text))
        /\ \A j \in 1..Len(call.text) :
              LET p == j + TabsIn(call.text, j - 1)
              IN  IF call.text[j] = "\t"
                  THEN call.result[p] = " " /\ call.result[p + 1] = " "
                  ELSE call.result[p] = call.text[j]
        /\ \A p \in 1..Len(call.result) : call.result[p] # "\t"
        /\ call.again = call.result

\* a call on content with two tabs and another character after the first
C21_Witness ==
    /\ call.fn = "normalize_tabs"
    /\ call.done
    /\ TabsIn(call.text, Len(call.text)) = 2
    /\ \E j \in 2..Len(call.text) :
          call.text[j] = "a" /\ TabsIn(call.text, j) = 1
    /\ Len(call.result) = Len(call.text) + 2

\* ------------------------------------------------------ claims about History
LastIndex(h) == Len(h.stack) - 1

PushedSame == lastOp.op = "push" /\ lastOp.same

PushedNew == lastOp.op = "push" /\ ~lastOp.same

\* C1: a push whose text equals the current snapshot's text leaves the stack
\* length, current_index, saved_index and every snapshot's text unchanged; the
\* only change is that the current snapshot's cursor_anchor and cursor_head
\* become the pushed (anchor, head).
C1_NoGrowthOnIdenticalPush ==
    [][PushedSame' =>
        /\ Len(history'.stack) = Len(history.stack)
        /\ history'.current_index = history.current_index
        /\ history'.saved_index = history.saved_index
        /\ \A i \in 1..Len(history.stack) :
              /\ history'.stack[i].text = history.stack[i].text
              /\ i # history.current_index + 1 => history'.stack[i] = history.stack[i]
        /\ history'.stack[history.current_index + 1].cursor_anchor = lastOp'.anchor
        /\ history'.stack[history.current_index + 1].cursor_head = lastOp'.head
    ]_vars

\* an identical push that changed both cursor fields of a snapshot with redo
\* entries above it
C1_Witness ==
    /\ PushedSame
    /\ lastOp.anchor # lastOp.head
    /\ history.current_index > 0
    /\ history.current_index < LastIndex(history)

\* C3: immediately after a push whose text differs from the current snapshot's
\* text, current_index is the last index of the stack and redo() returns None.
C3_RedoInvalidated ==
    PushedNew =>
        /\ history.current_index = LastIndex(history)
        /\ History_redo_ret(history) = None
        /\ History_redo(history) = history

\* a differing push made after an undo, with a redo branch to discard
C3_Witness ==
    /\ PushedNew
    /\ lastOp.pre_index < lastOp.pre_len - 1

\* the text the k-th call of the script must return: the undos walk
\* T(n-1), ..., T1 and the redos walk T2, ..., Tn
ExpectedReturn(k) ==
    IF k <= PushedCount - 1
    THEN rt.pushed[PushedCount - k]
    ELSE rt.pushed[k - (PushedCount - 1) + 1]

ScriptDone ==
    /\ PushedCount >= 1
    /\ rt.undone = PushedCount - 1
    /\ rt.redone = PushedCount - 1

\* C4: from a new History, after pushes T1..Tn (T1 non-empty, each Ti different
\* from T(i-1)), n-1 undo() calls return the snapshots with texts T(n-1), ..., T1
\* in that order, then n-1 redo() calls return T2, ..., Tn in that order, and
\* the current snapshot at the end is Tn.
C4_UndoRedoRoundTrip ==
    /\ Len(rt.returned) = rt.undone + rt.redone
    /\ \A k \in 1..Len(rt.returned) :
          /\ rt.returned[k] # None
          /\ rt.returned[k][1].text = ExpectedReturn(k)
    /\ ScriptDone =>
          /\ Get(history.stack, history.current_index) # None
          /\ history.stack[history.current_index + 1].text = rt.pushed[PushedCount]
          /\ Len(history.stack) = PushedCount + 1

\* the script ran to its end on the longest sequence
C4_Witness ==
    /\ ScriptDone
    /\ PushedCount = MaxPushes
    /\ PushedCount >= 3

\* C5: after any push that creates a new entry, is_dirty() returns true.
C5_PushCreatesDirty ==
    PushedNew => History_is_dirty(history)

NoOpUndoRedo == lastOp.op \in {"undo", "redo"} /\ lastOp.ret = None

\* C6: mark_saved() leaves is_dirty() false, and from a clean state is_dirty()
\* stays false across pushes of the current snapshot's text and across no-op
\* undo()/redo(); only an operation that moves current_index away from
\* saved_index makes it true.
C6_CleanUntilIndexMoves ==
    [][/\ lastOp'.op = "mark_saved" => ~History_is_dirty(history')
       /\ (~History_is_dirty(history) /\ (PushedSame' \/ NoOpUndoRedo'))
             => ~History_is_dirty(history')
       /\ (~History_is_dirty(history) /\ History_is_dirty(history'))
             => history'.current_index # history.current_index
    ]_vars

\* a clean state after mark_saved at a non-initial index, reached by an
\* identical push
C6_Witness ==
    /\ PushedSame
    /\ ~History_is_dirty(history)
    /\ history.saved_index > 0

\* C7: after mark_saved() at index s followed by undo()/redo() calls only,
\* is_dirty() is false exactly when current_index = s, and true when
\* current_index is below s or above s.
C7_DirtyOnEitherSide ==
    mark.ur =>
        /\ history.current_index = mark.at => ~History_is_dirty(history)
        /\ history.current_index < mark.at => History_is_dirty(history)
        /\ history.current_index > mark.at => History_is_dirty(history)

\* undone below the saved point
C7_Witness ==
    /\ mark.ur
    /\ lastOp.op = "undo"
    /\ history.current_index < mark.at

\* C8: clear(X) yields exactly one snapshot with text X and cursor offsets 0,
\* current_index = saved_index = 0; is_dirty() is false and undo() and redo()
\* return None.
C8_ClearResetsFully ==
    lastOp.op = "clear" =>
        /\ history.stack = <<Snapshot(lastOp.text, 0, 0)>>
        /\ history.current_index = 0
        /\ history.saved_index = 0
        /\ ~History_is_dirty(history)
        /\ History_undo_ret(history) = None
        /\ History_redo_ret(history) = None

\* clear of a history that had several entries and a moved current_index
C8_Witness ==
    /\ lastOp.op = "clear"
    /\ lastOp.text # <<>>
    /\ lastOp.pre_len > 2
    /\ lastOp.pre_index > 0

\* C9: the stack is never empty and 0 <= current_index < len(stack).
C9_CurrentIndexInBounds ==
    /\ Len(history.stack) >= 1
    /\ 0 <= history.current_index
    /\ history.current_index < Len(history.stack)

\* a push that truncated a redo branch, and a redo that reached the last index
C9_Witness ==
    \/ PushedNew /\ lastOp.pre_index < lastOp.pre_len - 1
    \/ lastOp.op = "redo" /\ lastOp.ret # None
           /\ history.current_index = LastIndex(history)

\* C10: 0 <= saved_index < len(stack), also after a push truncates the redo
\* branch.
C10_SavedIndexInBounds ==
    /\ 0 <= history.saved_index
    /\ history.saved_index < Len(history.stack)

\* C14: undo() with current_index > 0 decrements current_index by exactly 1
\* and returns the snapshot that is now at current_index; it changes neither
\* the stack contents nor saved_index.
C14_UndoStepsBackOnly ==
    [][(lastOp'.op = "undo" /\ history.current_index > 0) =>
        /\ history'.current_index = history.current_index - 1
        /\ lastOp'.ret = Some(history'.stack[history'.current_index + 1])
        /\ history'.stack = history.stack
        /\ history'.saved_index = history.saved_index
    ]_vars

\* a successful undo from the second of three entries, the saved point
\* elsewhere
C14_Witness ==
    /\ lastOp.op = "undo"
    /\ lastOp.ret # None
    /\ lastOp.pre_index = 2
    /\ history.current_index = 1
    /\ history.saved_index = 2
    /\ history.stack[1].text # history.stack[2].text

\* C15: redo() with current_index < len-1 increments current_index by
\* exactly 1 and returns the snapshot that is now current, leaving the stack
\* contents and saved_index unchanged; a successful undo() followed by
\* redo() restores the exact prior History state.
C15_RedoStepsForwardOnly ==
    [][/\ (lastOp'.op = "redo" /\ history.current_index < LastIndex(history)) =>
            /\ history'.current_index = history.current_index + 1
            /\ lastOp'.ret = Some(history'.stack[history'.current_index + 1])
            /\ history'.stack = history.stack
            /\ history'.saved_index = history.saved_index
       /\ (lastOp'.op = "undo" /\ history.current_index > 0) =>
            /\ History_redo_ret(history') # None
            /\ History_redo(history') = history
    ]_vars

\* a successful redo over an entry an earlier undo had stepped off, with a
\* further redo entry still above
C15_Witness ==
    /\ lastOp.op = "redo"
    /\ lastOp.ret # None
    /\ history.current_index = lastOp.pre_index + 1
    /\ history.current_index < LastIndex(history)

\* C16: undo() at current_index = 0 and redo() at the last index return None
\* and leave stack, current_index and saved_index unchanged.
C16_NoOpAtTheEnds ==
    [][/\ (lastOp'.op = "undo" /\ history.current_index = 0) =>
            (lastOp'.ret = None /\ history' = history)
       /\ (lastOp'.op = "redo" /\ history.current_index = LastIndex(history)) =>
            (lastOp'.ret = None /\ history' = history)
    ]_vars

\* an undo refused at index 0 with redo entries above and the saved point
\* elsewhere
C16_Witness ==
    /\ lastOp.op = "undo"
    /\ lastOp.pre_index = 0
    /\ lastOp.ret = None
    /\ Len(history.stack) > 1
    /\ history.saved_index # 0

\* C17: mark_saved() sets saved_index to current_index and changes nothing
\* else; is_dirty() is false immediately after.
C17_MarkSavedOnlySetsSaved ==
    [][lastOp'.op = "mark_saved" =>
        /\ history'.saved_index = history.current_index
        /\ history'.current_index = history.current_index
        /\ history'.stack = history.stack
        /\ ~History_is_dirty(history')
    ]_vars

\* mark_saved called in a dirty state below the top of the stack
C17_Witness ==
    /\ lastOp.op = "mark_saved"
    /\ history.saved_index = history.current_index
    /\ history.current_index > 0
    /\ history.current_index < LastIndex(history)

\* C18: after one or more successful undo() calls, push(T, a, h) with T equal
\* to the current snapshot's text keeps every entry after current_index, and
\* a following redo() returns the same snapshot it would have returned
\* without the push.
C18_IdenticalPushKeepsRedo ==
    [][(PushedSame' /\ history.current_index < LastIndex(history)) =>
        /\ Len(history'.stack) = Len(history.stack)
        /\ \A i \in (history.current_index + 2)..Len(history.stack) :
              history'.stack[i] = history.stack[i]
        /\ History_redo_ret(history') # None
        /\ History_redo_ret(history') = History_redo_ret(history)
        /\ History_redo(history').current_index = history.current_index + 1
    ]_vars

\* an identical push made two undos below the top, moving the cursor
C18_Witness ==
    /\ PushedSame
    /\ history.current_index + 2 = LastIndex(history)
    /\ history.stack[history.current_index + 1].cursor_head = lastOp.head
    /\ lastOp.head # 0

\* C19: a newly constructed History holds exactly one snapshot, with empty
\* text and both cursors 0, has current_index = saved_index = 0, and
\* is_dirty() is false.
C19_NewIsOneEmptyClean ==
    lastOp.op = "new" =>
        /\ Len(history.stack) = 1
        /\ history.stack[1].text = <<>>
        /\ history.stack[1].cursor_anchor = 0
        /\ history.stack[1].cursor_head = 0
        /\ history.current_index = 0
        /\ history.saved_index = 0
        /\ ~History_is_dirty(history)

\* the History just constructed, nothing called on it yet
C19_Witness ==
    /\ lastOp.op = "new"
    /\ history.stack # <<>>
    /\ Get(history.stack, history.current_index) = Some(Snapshot(<<>>, 0, 0))

\* C22: a push whose text differs from stack[current_index].text discards
\* exactly the entries with index > current_index, keeps every entry with
\* index <= the old current_index unchanged, appends the new snapshot
\* (text, anchor, head) and advances current_index by 1, so the new stack
\* length is old current_index + 2.
C22_DifferingPushTruncatesAndAppends ==
    [][PushedNew' =>
        /\ Len(history'.stack) = history.current_index + 2
        /\ history'.current_index = history.current_index + 1
        /\ \A i \in 1..(history.current_index + 1) :
              history'.stack[i] = history.stack[i]
        /\ history'.stack[history.current_index + 2] =
              Snapshot(lastOp'.text, lastOp'.anchor, lastOp'.head)
    ]_vars

\* a differing push made at index 1 of three entries: one entry discarded,
\* two kept, the new one on top with distinct cursors
C22_Witness ==
    /\ PushedNew
    /\ lastOp.pre_index = 1
    /\ lastOp.pre_len = 3
    /\ Len(history.stack) = 3
    /\ history.current_index = 2
    /\ lastOp.anchor # lastOp.head
    /\ history.stack[3] = Snapshot(lastOp.text, lastOp.anchor, lastOp.head)

\* C23: the saved pointer keeps designating the persisted content: in every
\* reachable History state, is_dirty() == false implies that
\* stack[current_index].text equals the text that was current at the most
\* recent mark_saved() (or the text given to the most recent clear/new if
\* none followed), including after undo past the saved point followed by a
\* push of different text.
C23_CleanMeansPersistedText ==
    ~History_is_dirty(history) =>
        /\ Get(history.stack, history.current_index) # None
        /\ history.stack[history.current_index + 1].text = persisted

\* ------------------------------------- further claims about the whole editor

\* C32: snapshot offset validity: in every reachable state of the adapter
\* plus history, the buffer always reporting a caret within its current
\* content, every snapshot in the stack has 0 <= cursor_anchor <= length(text)
\* and 0 <= cursor_head <= length(text), including after deduplicated pushes
\* overwrite cursor fields and after clear.
C32_SnapshotOffsetsValid ==
    /\ input_state.cursor \in 0..ByteLen(input_state.value)
    /\ \A i \in 1..Len(history.stack) :
          /\ history.stack[i].cursor_anchor \in 0..ByteLen(history.stack[i].text)
          /\ history.stack[i].cursor_head \in 0..ByteLen(history.stack[i].text)

\* two snapshots, the caret of the older one moved off 0 by a deduplicated
\* push and the newer one recorded with its caret at the end of its text
C32_Witness ==
    /\ Len(history.stack) = 2
    /\ history.stack[1].cursor_head > 0
    /\ history.stack[2].cursor_head = ByteLen(history.stack[2].text)
    /\ history.stack[2].cursor_head > 0

\* C33: save marks the persisted state: after a successful save
\* (save_file_task or save_as_dialog_task), the snapshot designated by
\* saved_index holds exactly the text that was written to disk, and is_dirty
\* is false only if the buffer content equals the written content, for every
\* interleaving of user edits with the asynchronous read-text, write-file
\* and mark_clean steps.
C33_SaveMarksWrittenText ==
    [][Save_update =>
        /\ ws'.written # None
        /\ Get(history'.stack, history'.saved_index) # None
        /\ history'.stack[history'.saved_index + 1].text = ws'.written[1]
        /\ ~is_dirty' => input_state'.value = ws'.written[1]
    ]_vars

\* no Workspace task is in flight: every Workspace-level operation begun has
\* completed
TasksDone == ws.save.pc = "idle" /\ ws.prompt.pc = "idle" /\ ~ws.open

\* C36: when TextEditor::open_file fails to read the file it returns the
\* error with the editor state unchanged (buffer content, history,
\* suppression flag, current_file, is_dirty); and the workspace's
\* current_file and the editor's current_file designate the same path after
\* every Workspace-level operation (open_file, close_file, open dialog, save,
\* save-as), including when the read or the write fails.
C36_FailedReadAndPathsAgree ==
    [][/\ (\E path \in Paths : Workspace_open_file(path, None)) =>
             UNCHANGED <<input_state, history, ignore_input_events,
                         current_file, is_dirty>>
       /\ TasksDone' => ws'.current_file = current_file'
    ]_vars

\* a step in which a guarded continuation runs: close_file empties the
\* editor, open_dialog_internal opens its dialog, or the application quits
RunsContinuation ==
    \/ /\ current_file' = None
       /\ Len(events') > Len(events)
       /\ events'[Len(events')] = "prog"
    \/ ~ws.open /\ ws'.open
    \/ ~ws.quit /\ ws'.quit

\* C34: unsaved-changes protection: when enable_unsaved_changes_protection
\* is true and the editor is dirty, the guarded continuation (close file,
\* open dialog, quit) runs only if the user answered No, or answered Yes and
\* the save completed successfully; on Cancel or a failed/cancelled save it
\* never runs and the document and history are left untouched.  When
\* protection is disabled or the editor is not dirty the continuation runs
\* immediately, exactly once (no prompt is left to run it again).
C34_ContinuationOnlyWhenAllowed ==
    [][/\ RunsContinuation =>
             \/ /\ \E cont \in {"close", "open", "quit"} : Workspace_guarded(cont)
                /\ ~ws.protect \/ ~is_dirty
             \/ Prompt_answer("no")
             \/ Prompt_after_save /\ ws.save.ok /\ ws.written # None
       /\ (Prompt_answer("cancel") \/ (Prompt_after_save /\ ~ws.save.ok)) =>
             /\ ~RunsContinuation
             /\ ws'.prompt = IdlePrompt
             /\ UNCHANGED <<history, editorVars>>
       /\ (ws.save.prompted /\ ws.save.pc \in {"dialog", "read", "write"}
                            /\ ws'.save # ws.save) =>
             UNCHANGED <<history, input_state>>
       /\ (\E cont \in {"close", "open", "quit"} : Workspace_guarded(cont)) =>
             IF ~ws.protect \/ ~is_dirty
             THEN RunsContinuation /\ ws'.prompt = IdlePrompt
             ELSE ~RunsContinuation /\ ws'.prompt.pc = "shown"
    ]_vars

\* the application has quit under protection with the text saved on the way:
\* the prompt was answered Yes and the save succeeded
C34_Witness ==
    /\ ws.quit
    /\ ws.protect
    /\ ws.written = Some(input_state.value)
    /\ input_state.value # <<>>
    /\ ~is_dirty
    /\ ws.prompt = IdlePrompt

\* C35: adjacent snapshots always differ: in every reachable History state,
\* for every i with 0 <= i < len(stack) - 1, stack[i].text != stack[i+1].text,
\* so every undo or redo that returns a snapshot returns one whose text
\* differs from the text of the snapshot it left.
C35_AdjacentSnapshotsDiffer ==
    /\ \A i \in 1..(Len(history.stack) - 1) :
          history.stack[i].text # history.stack[i + 1].text
    /\ (lastOp.op \in {"undo", "redo"} /\ lastOp.ret # None) =>
          lastOp.ret[1].text #
              history.stack[lastOp.pre_index + 1].text

\* a full stack, rebuilt by a push that cut a redo branch, stepped through
\* by an undo that returned a snapshot
C35_Witness ==
    /\ Len(history.stack) = MaxStack
    /\ history.stack[1].text = history.stack[MaxStack].text
    /\ lastOp.op = "undo"
    /\ lastOp.ret # None

\* --------------------------------------------- claims about LineEnding::detect

\* "\r\n" pairs, line feeds with no "\r" before them and carriage returns
\* with no "\n" after them, counted from the content itself
CrlfPairs(content) ==
    Cardinality({i \in 1..(Len(content) - 1) :
                    content[i] = "\r" /\ content[i + 1] = "\n"})

LoneLfs(content) ==
    Cardinality({i \in 1..Len(content) :
                    content[i] = "\n" /\ (i = 1 \/ content[i - 1] # "\r")})

LoneCrs(content) ==
    Cardinality({i \in 1..Len(content) :
                    /\ content[i] = "\r"
                    /\ i = Len(content) \/ content[i + 1] # "\n"})

Detected == call.fn = "detect" /\ call.done

\* C37: LineEnding::detect returns the predominant line-ending style of the
\* content: a "\r\n" pair is counted once as CRLF and never as a lone CR plus
\* a lone LF, the style (CRLF, lone LF, lone CR) that occurs most often is
\* returned, and Lf is returned when the content has no line break.
C37_DetectReturnsPredominantStyle ==
    Detected =>
        LET crlf == CrlfPairs(call.text)
            lf   == LoneLfs(call.text)
            cr   == LoneCrs(call.text)
        IN  /\ (crlf > lf /\ crlf > cr) => call.result = "Crlf"
            /\ (lf > crlf /\ lf > cr) => call.result = "Lf"
            /\ (cr > crlf /\ cr > lf) => call.result = "Cr"
            /\ (crlf = 0 /\ lf = 0 /\ cr = 0) => call.result = "Lf"

====
